---------------------------- MODULE Spec2Model ----------------------------
(***************************************************************************)
(* Model of the Jira integration plugin (official/jira-integration/        *)
(* server.py): the lazily created process-wide client, the advertised tool *)
(* catalog, and call_tool, the string-keyed dispatch over eight tools      *)
(* wrapped in one try/except boundary.                                     *)
(*                                                                         *)
(* Python values are tagged records so that None, str, list, int and bool  *)
(* never compare equal to one another:                                     *)
(*     None -> [none |-> TRUE]      str  -> [s |-> <<chunks>>]             *)
(*     list -> [l |-> <<items>>]    int  -> [i |-> n]    bool -> [b |-> x] *)
(* A str is a sequence of chunks and concatenation is \o.  Transition ids, *)
(* names and tokens are spelled one character per chunk (str.lower works   *)
(* per character); every other string is a single chunk.                   *)
(* The two non-ASCII markers of the source are written CROSS ("[X]" for    *)
(* the cross mark) and CHECK ("[OK]" for the check mark).                  *)
(***************************************************************************)
EXTENDS Naturals, Sequences, FiniteSets, TLC

VARIABLES
    environ,        \* os.environ: the three JIRA_* variables
    _jira_client,   \* the module global _jira_client
    phase,          \* "idle": awaiting a request; "returned": a handler has run
    last,           \* the request just handled: [name, arguments]
    result,         \* what the handler returned (a list of TextContent, or the catalog)
    escaped,        \* the exception that left the handler, NoExc if none
    calls           \* client operations issued by the handler, in order

vars == <<environ, _jira_client, phase, last, result, escaped, calls>>

---------------------------------------------------------------------------
(* Bounds of the model.                                                    *)

\* longest list of issues, comments or projects the client returns
MaxList == 2
\* longest list of transitions the client returns
MaxTransitions == 3

---------------------------------------------------------------------------
(* Python values.                                                          *)

None == [none |-> TRUE]
Str(chunks) == [s |-> chunks]
List(items) == [l |-> items]
Int(n) == [i |-> n]
Bool(x) == [b |-> x]

IsNone(v) == "none" \in DOMAIN v

\* bool(v): None, "", [], 0 and False are falsy; objects are truthy
Truthy(v) ==
    IF "none" \in DOMAIN v THEN FALSE
    ELSE IF "s" \in DOMAIN v THEN v.s # <<>>
    ELSE IF "l" \in DOMAIN v THEN v.l # <<>>
    ELSE IF "i" \in DOMAIN v THEN v.i # 0
    ELSE IF "b" \in DOMAIN v THEN v.b
    ELSE TRUE

\* all sequences over S of length at most n
SeqsUpTo(S, n) == UNION {[1..k -> S] : k \in 0..n}

Range(f) == {f[x] : x \in DOMAIN f}

\* dict with d[k] = v added or overwritten
Put(d, k, v) == [x \in DOMAIN d \cup {k} |-> IF x = k THEN v ELSE d[x]]

\* dict.get(k, default)
Get(d, k, default) == IF k \in DOMAIN d THEN d[k] ELSE default

EmptyDict == <<>>

\* str(n) of a non-negative int: its decimal digits, one chunk each
Digit(d) == <<"0", "1", "2", "3", "4", "5", "6", "7", "8", "9">>[d + 1]

RECURSIVE IntToStr(_)
IntToStr(n) == IF n < 10 THEN <<Digit(n)>> ELSE IntToStr(n \div 10) \o <<Digit(n % 10)>>

\* str.lower() on the characters the model spells transitions with
LowerChar(c) ==
    CASE c = "D" -> "d"
      [] c = "O" -> "o"
      [] c = "N" -> "n"
      [] c = "E" -> "e"
      [] OTHER -> c

Lower(chunks) == [k \in DOMAIN chunks |-> LowerChar(chunks[k])]

\* sep.join(parts) for strings given as chunk sequences
RECURSIVE Join(_, _)
Join(sep, parts) ==
    IF parts = <<>> THEN <<>>
    ELSE IF Len(parts) = 1 THEN parts[1]
    ELSE parts[1] \o sep \o Join(sep, Tail(parts))

\* json.dumps(x, indent=2)
JsonDumps(x) == <<ToString(x)>>

CROSS == "[X]"
CHECK == "[OK]"

---------------------------------------------------------------------------
(* Exceptions, and what a client operation does when called.               *)

NoExc == [t |-> "none"]
KeyError(k) == [t |-> "KeyError", key |-> k]
ValueError(m) == [t |-> "ValueError", msg |-> m]

\* JIRAError instances the tracker answers with
JIRAErrors ==
    { [t |-> "JIRAError", status_code |-> 401, text |-> "Unauthorized"],
      [t |-> "JIRAError", status_code |-> 404, text |-> "Issue Does Not Exist"] }

\* failures of a client operation that are not JIRAError
OtherErrors == { [t |-> "ConnectionError", msg |-> "Connection refused"] }

Failures == JIRAErrors \cup OtherErrors

Ok(v) == [t |-> "ok", value |-> v]

\* every class the model raises derives from Exception
IsException(e) == e.t \in {"KeyError", "ValueError", "JIRAError", "ConnectionError"}

\* str(e)
StrExc(e) ==
    IF e.t = "KeyError" THEN <<"'", e.key, "'">>
    ELSE <<e.msg>>

\* one client operation as the handler saw it: what it was given, what it did
Call(op, args, b) == [op |-> op, args |-> args, b |-> b]

\* a handler's progress: returned a value, or raised
Returned(text, cs) == [exc |-> NoExc, text |-> text, calls |-> cs]
Raised(e, cs) == [exc |-> e, text |-> <<>>, calls |-> cs]

---------------------------------------------------------------------------
(* Configuration and the shared client.                                    *)

EnvNames == {"JIRA_URL", "JIRA_EMAIL", "JIRA_API_TOKEN"}

\* os.getenv gives None for an unset variable; a set one may be empty
EnvValues == {None, Str(<<>>), Str(<<"set">>)}

getenv(k) == environ[k]

ConfigComplete == \A k \in EnvNames : Truthy(getenv(k))

MissingConfigMessage ==
    "Missing Jira configuration. Required environment variables: JIRA_URL, JIRA_EMAIL, JIRA_API_TOKEN"

\* JIRA(...) returns a new object each time it succeeds
NewClient == [handle |-> IF IsNone(_jira_client) THEN 1 ELSE _jira_client.handle + 1]

ConstructorCall(b) ==
    Call("JIRA", <<getenv("JIRA_URL"), getenv("JIRA_EMAIL"), getenv("JIRA_API_TOKEN")>>, b)

\* get_jira_client() with the assignment to the global lost: the new client
\* is handed back but never kept
get_jira_client_Uncached(cb) ==
    IF ~IsNone(_jira_client)
    THEN [client |-> _jira_client, global |-> _jira_client, exc |-> NoExc, calls |-> <<>>]
    ELSE IF ~ConfigComplete
    THEN [client |-> None, global |-> _jira_client,
          exc |-> ValueError(MissingConfigMessage), calls |-> <<>>]
    ELSE IF cb.t # "ok"
    THEN [client |-> None, global |-> _jira_client, exc |-> cb,
          calls |-> <<ConstructorCall(cb)>>]
    ELSE [client |-> NewClient, global |-> _jira_client, exc |-> NoExc,
          calls |-> <<ConstructorCall(cb)>>]

\* get_jira_client(), cb being what the constructor does if it is called:
\* the client to use, the new value of the global, the exception raised
get_jira_client(cb) ==
    IF ~IsNone(_jira_client)
    THEN [client |-> _jira_client, global |-> _jira_client, exc |-> NoExc, calls |-> <<>>]
    ELSE IF ~ConfigComplete
    THEN [client |-> None, global |-> _jira_client,
          exc |-> ValueError(MissingConfigMessage), calls |-> <<>>]
    ELSE IF cb.t # "ok"
    THEN [client |-> None, global |-> _jira_client, exc |-> cb,
          calls |-> <<ConstructorCall(cb)>>]
    ELSE [client |-> NewClient, global |-> NewClient, exc |-> NoExc,
          calls |-> <<ConstructorCall(cb)>>]

\* a call point the handler did not reach has no behaviour
Unreached == [t |-> "unreached"]

\* what the constructor may do, drawn only in the states where
\* get_jira_client() reaches it
ConstructorBehaviours ==
    IF IsNone(_jira_client) /\ ConfigComplete
    THEN {[t |-> "ok"]} \cup Failures
    ELSE {Unreached}

\* jira.client_info(): the server URL
client_info == <<"https://jira.example">>

---------------------------------------------------------------------------
(* The advertised catalog.  inputSchema.properties is a dict literal; it   *)
(* is kept as the sequence of its <<key, schema>> items in source order.   *)

IssueKeyProperty ==
    <<"issue_key", [type |-> "string", description |-> "Issue key (e.g., 'PROJ-123')"]>>

Tool(name, description, inputSchema) ==
    [name |-> name, description |-> description, inputSchema |-> inputSchema]

list_tools ==
    << Tool("jira_search_issues",
            "Search Jira issues using JQL (Jira Query Language)",
            [type |-> "object",
             properties |-> <<
                <<"jql", [type |-> "string",
                          description |-> "JQL query string (e.g., 'project = MYPROJ AND status = Open')"]>>,
                <<"max_results", [type |-> "integer",
                                  description |-> "Maximum number of results to return",
                                  default |-> Int(50)]>>,
                <<"fields", [type |-> "array", items |-> [type |-> "string"],
                             description |-> "Specific fields to return (optional)"]>> >>,
             required |-> <<"jql">>]),
       Tool("jira_get_issue",
            "Get detailed information about a specific Jira issue",
            [type |-> "object",
             properties |-> <<
                IssueKeyProperty,
                <<"expand", [type |-> "array", items |-> [type |-> "string"],
                             description |-> "Additional data to expand (e.g., ['changelog', 'comments'])"]>> >>,
             required |-> <<"issue_key">>]),
       Tool("jira_create_issue",
            "Create a new Jira issue",
            [type |-> "object",
             properties |-> <<
                <<"project", [type |-> "string", description |-> "Project key (e.g., 'PROJ')"]>>,
                <<"summary", [type |-> "string", description |-> "Issue summary/title"]>>,
                <<"description", [type |-> "string", description |-> "Issue description"]>>,
                <<"issue_type", [type |-> "string",
                                 description |-> "Issue type (e.g., 'Bug', 'Story', 'Task')",
                                 default |-> Str(<<"Task">>)]>>,
                <<"priority", [type |-> "string",
                               description |-> "Priority (e.g., 'High', 'Medium', 'Low')"]>>,
                <<"assignee", [type |-> "string", description |-> "Assignee username or email"]>>,
                <<"labels", [type |-> "array", items |-> [type |-> "string"],
                             description |-> "Issue labels"]>> >>,
             required |-> <<"project", "summary", "issue_type">>]),
       Tool("jira_update_issue",
            "Update an existing Jira issue",
            [type |-> "object",
             properties |-> <<
                IssueKeyProperty,
                <<"summary", [type |-> "string", description |-> "New summary/title"]>>,
                <<"description", [type |-> "string", description |-> "New description"]>>,
                <<"priority", [type |-> "string", description |-> "New priority"]>>,
                <<"assignee", [type |-> "string",
                               description |-> "New assignee username or email"]>>,
                <<"labels", [type |-> "array", items |-> [type |-> "string"],
                             description |-> "New labels"]>> >>,
             required |-> <<"issue_key">>]),
       Tool("jira_add_comment",
            "Add a comment to a Jira issue",
            [type |-> "object",
             properties |-> <<
                IssueKeyProperty,
                <<"comment", [type |-> "string",
                              description |-> "Comment text (supports Jira markdown)"]>> >>,
             required |-> <<"issue_key", "comment">>]),
       Tool("jira_transition_issue",
            "Change the status of a Jira issue (e.g., move to In Progress, Done)",
            [type |-> "object",
             properties |-> <<
                IssueKeyProperty,
                <<"transition", [type |-> "string",
                                 description |-> "Transition name or ID (e.g., 'In Progress', 'Done', '21')"]>>,
                <<"comment", [type |-> "string",
                              description |-> "Optional comment when transitioning"]>> >>,
             required |-> <<"issue_key", "transition">>]),
       Tool("jira_get_transitions",
            "Get available transitions (status changes) for a Jira issue",
            [type |-> "object",
             properties |-> << IssueKeyProperty >>,
             required |-> <<"issue_key">>]),
       Tool("jira_list_projects",
            "List all accessible Jira projects",
            [type |-> "object",
             properties |-> <<
                <<"include_archived", [type |-> "boolean",
                                       description |-> "Include archived projects",
                                       default |-> Bool(FALSE)]>> >>]) >>

---------------------------------------------------------------------------
(* What the tracker holds and what callers send.                           *)

\* dicts over the keys in the sequence ks: each key absent, or present with
\* one of the values choices[k]
RECURSIVE Dicts(_, _)
Dicts(ks, choices) ==
    IF ks = <<>> THEN {EmptyDict}
    ELSE LET rest == Dicts(Tail(ks), choices)
         IN  rest \cup {Put(d, Head(ks), v) : d \in rest, v \in choices[Head(ks)]}

IssueKeys == {Str(<<"PROJ-1">>)}

\* an issue with every field set, and one with the nullable fields null
FullIssue ==
    [key |-> "PROJ-1",
     fields |-> [summary |-> "Fix bug", description |-> Str(<<"It crashes">>),
                 status |-> [name |-> "Open"], issuetype |-> [name |-> "Bug"],
                 assignee |-> [displayName |-> "Alice"],
                 reporter |-> [displayName |-> "Bob"],
                 priority |-> [name |-> "High"], labels |-> <<"backend">>,
                 created |-> "2024-01-01", updated |-> "2024-01-02"]]

BareIssue ==
    [key |-> "PROJ-2",
     fields |-> [summary |-> "Write docs", description |-> None,
                 status |-> [name |-> "Done"], issuetype |-> [name |-> "Task"],
                 assignee |-> None, reporter |-> None, priority |-> None,
                 labels |-> <<>>,
                 created |-> "2024-02-01", updated |-> "2024-02-02"]]

Issues == {FullIssue, BareIssue}

Comments == {[author |-> [displayName |-> "Alice"], body |-> "Looks good", created |-> "2024-01-03"]}

\* a project object may or may not carry the attributes archived and lead
Projects ==
    LET base == [key |-> "PROJ", name |-> "Project"]
        withArchived == {base} \cup {Put(base, "archived", a) : a \in BOOLEAN}
    IN  withArchived \cup {Put(p, "lead", [displayName |-> "Carol"]) : p \in withArchived}

\* transition ids and names, one character per chunk; ids are non-empty, as
\* the tracker issues them, and one name is spelled like another's id
TransitionIds == {<<"2", "1">>, <<"3", "1">>}
TransitionNames == {<<"D", "o", "n", "e">>, <<"D", "O", "N", "E">>, <<"3", "1">>}
TransitionTokens ==
    {<<"d", "o", "n", "e">>, <<"D", "o", "n", "e">>, <<"D", "O", "N", "E">>,
     <<"o", "n">>, <<"2", "1">>, <<"3", "1">>, <<>>}

\* the dicts jira.transitions() returns
Transitions ==
    {[id |-> i, name |-> n, to |-> [name |-> "Done"]] : i \in TransitionIds, n \in TransitionNames}

SearchArguments ==
    Dicts(<<"jql", "max_results", "fields">>,
          [jql |-> {Str(<<"project = PROJ">>)},
           max_results |-> {Int(10)},
           fields |-> {List(<<"summary">>)}])

GetIssueArguments ==
    Dicts(<<"issue_key", "expand">>,
          [issue_key |-> IssueKeys,
           expand |-> {List(<<>>), List(<<"comments">>), List(<<"changelog", "comments">>)}])

CreateArguments ==
    Dicts(<<"project", "summary", "description", "issue_type", "priority", "assignee", "labels">>,
          [project |-> {Str(<<"PROJ">>)},
           summary |-> {Str(<<"Fix bug">>)},
           description |-> {Str(<<"It crashes">>)},
           issue_type |-> {Str(<<"Bug">>)},
           priority |-> {Str(<<>>), Str(<<"High">>)},
           assignee |-> {Str(<<"alice">>)},
           labels |-> {List(<<>>), List(<<"backend">>)}])

\* "components" is a key the update schema does not declare
UpdateArguments ==
    Dicts(<<"issue_key", "summary", "description", "priority", "assignee", "labels", "components">>,
          [issue_key |-> IssueKeys,
           summary |-> {Str(<<"Fix bug now">>)},
           description |-> {Str(<<>>)},
           priority |-> {Str(<<"Low">>)},
           assignee |-> {Str(<<"bob">>)},
           labels |-> {List(<<>>), List(<<"backend">>)},
           components |-> {List(<<"api">>)}])

AddCommentArguments ==
    Dicts(<<"issue_key", "comment">>,
          [issue_key |-> IssueKeys, comment |-> {Str(<<"Looks good">>)}])

TransitionArguments ==
    Dicts(<<"issue_key", "transition", "comment">>,
          [issue_key |-> IssueKeys,
           transition |-> {Str(t) : t \in TransitionTokens},
           comment |-> {Str(<<"Shipping">>)}])

GetTransitionsArguments == Dicts(<<"issue_key">>, [issue_key |-> IssueKeys])

ListProjectsArguments ==
    Dicts(<<"include_archived">>, [include_archived |-> {Bool(TRUE), Bool(FALSE)}])

UnknownNames == {"jira_delete_issue", "JIRA_GET_ISSUE"}

UnknownArguments == Dicts(<<"issue_key">>, [issue_key |-> IssueKeys])

---------------------------------------------------------------------------
(* The branches of call_tool.  Each takes the raw arguments and what the   *)
(* client operations it reaches do (b, b1, b2: Ok(value) or an exception), *)
(* and gives Returned(text, calls) or Raised(exception, calls).            *)

\* x.displayName if x else otherwise
DisplayNameOr(x, otherwise) == IF Truthy(x) THEN x.displayName ELSE otherwise

\* the dict built per issue in the search loop
IssueSummary(issue) ==
    [key |-> issue.key,
     summary |-> issue.fields.summary,
     status |-> issue.fields.status.name,
     issue_type |-> issue.fields.issuetype.name,
     assignee |-> Str(<<DisplayNameOr(issue.fields.assignee, "Unassigned")>>),
     reporter |-> IF Truthy(issue.fields.reporter)
                  THEN Str(<<issue.fields.reporter.displayName>>) ELSE None,
     priority |-> IF Truthy(issue.fields.priority)
                  THEN Str(<<issue.fields.priority.name>>) ELSE None,
     created |-> issue.fields.created,
     updated |-> issue.fields.updated]

jira_search_issues(arguments, b) ==
    IF "jql" \notin DOMAIN arguments THEN Raised(KeyError("jql"), <<>>)
    ELSE
    LET jql == arguments["jql"]
        max_results == Get(arguments, "max_results", Int(50))
        fields == Get(arguments, "fields", None)
        cs == <<Call("search_issues", [jql |-> jql, maxResults |-> max_results, fields |-> fields], b)>>
    IN  IF b.t # "ok" THEN Raised(b, cs)
        ELSE
        LET results == [k \in DOMAIN b.value |-> IssueSummary(b.value[k])]
        IN  Returned(<<"Found ">> \o IntToStr(Len(results)) \o <<" issue(s):\n\n">>
                        \o JsonDumps(results), cs)

\* the dict built for one issue, before comments are added
IssueData(issue) ==
    [key |-> issue.key,
     summary |-> issue.fields.summary,
     description |-> issue.fields.description,
     status |-> issue.fields.status.name,
     issue_type |-> issue.fields.issuetype.name,
     assignee |-> Str(<<DisplayNameOr(issue.fields.assignee, "Unassigned")>>),
     reporter |-> IF Truthy(issue.fields.reporter)
                  THEN Str(<<issue.fields.reporter.displayName>>) ELSE None,
     priority |-> IF Truthy(issue.fields.priority)
                  THEN Str(<<issue.fields.priority.name>>) ELSE None,
     labels |-> issue.fields.labels,
     created |-> issue.fields.created,
     updated |-> issue.fields.updated,
     url |-> client_info \o <<"/browse/", issue.key>>]

jira_get_issue(arguments, b1, b2) ==
    IF "issue_key" \notin DOMAIN arguments THEN Raised(KeyError("issue_key"), <<>>)
    ELSE
    LET issue_key == arguments["issue_key"]
        expand == Get(arguments, "expand", None)
        expandArg == IF Truthy(expand)
                     THEN Str(Join(<<",">>, [k \in DOMAIN expand.l |-> <<expand.l[k]>>]))
                     ELSE None
        c1 == Call("issue", [id |-> issue_key, expand |-> expandArg], b1)
    IN  IF b1.t # "ok" THEN Raised(b1, <<c1>>)
        ELSE
        LET issue == b1.value
            issue_data == IssueData(issue)
        IN  IF Truthy(expand) /\ "comments" \in Range(expand.l)
            THEN LET c2 == Call("comments", [issue |-> issue.key], b2)
                 IN  IF b2.t # "ok" THEN Raised(b2, <<c1, c2>>)
                     ELSE Returned(
                            JsonDumps(Put(issue_data, "comments",
                                [k \in DOMAIN b2.value |->
                                    [author |-> b2.value[k].author.displayName,
                                     body |-> b2.value[k].body,
                                     created |-> b2.value[k].created]])),
                            <<c1, c2>>)
            ELSE Returned(JsonDumps(issue_data), <<c1>>)

\* issue_dict with the priority entry added whether or not one was given
CreateFields_PriorityAlways(arguments) ==
    LET d0 == [project |-> [key |-> arguments["project"]],
               summary |-> arguments["summary"],
               description |-> Get(arguments, "description", Str(<<>>)),
               issuetype |-> [name |-> Get(arguments, "issue_type", Str(<<"Task">>))]]
        d1 == Put(d0, "priority", [name |-> Get(arguments, "priority", None)])
        d2 == IF Truthy(Get(arguments, "assignee", None))
              THEN Put(d1, "assignee", [name |-> arguments["assignee"]]) ELSE d1
        d3 == IF Truthy(Get(arguments, "labels", List(<<>>)))
              THEN Put(d2, "labels", arguments["labels"]) ELSE d2
    IN  d3

\* issue_dict as submitted by the create branch
CreateFields(arguments) ==
    LET project == arguments["project"]
        summary == arguments["summary"]
        description == Get(arguments, "description", Str(<<>>))
        issue_type == Get(arguments, "issue_type", Str(<<"Task">>))
        priority == Get(arguments, "priority", None)
        assignee == Get(arguments, "assignee", None)
        labels == Get(arguments, "labels", List(<<>>))
        d0 == [project |-> [key |-> project],
               summary |-> summary,
               description |-> description,
               issuetype |-> [name |-> issue_type]]
        d1 == IF Truthy(priority) THEN Put(d0, "priority", [name |-> priority]) ELSE d0
        d2 == IF Truthy(assignee) THEN Put(d1, "assignee", [name |-> assignee]) ELSE d1
        d3 == IF Truthy(labels) THEN Put(d2, "labels", labels) ELSE d2
    IN  d3

jira_create_issue(arguments, b) ==
    IF "project" \notin DOMAIN arguments THEN Raised(KeyError("project"), <<>>)
    ELSE IF "summary" \notin DOMAIN arguments THEN Raised(KeyError("summary"), <<>>)
    ELSE
    LET summary == arguments["summary"]
        issue_dict == CreateFields(arguments)
        cs == <<Call("create_issue", [fields |-> issue_dict], b)>>
    IN  IF b.t # "ok" THEN Raised(b, cs)
        ELSE
        LET new_issue == b.value
        IN  Returned(<<CHECK, " Issue created successfully!\n\n", "Key: ", new_issue.key, "\n", "URL: ">>
                        \o client_info \o <<"/browse/", new_issue.key, "\n", "Summary: ">>
                        \o summary.s, cs)

\* update_fields built on the values' truthiness, as the create branch
\* does, instead of on the keys' presence
UpdateFields_Truthy(arguments) ==
    LET given(f) == Truthy(Get(arguments, f, None))
        u0 == EmptyDict
        u1 == IF given("summary") THEN Put(u0, "summary", arguments["summary"]) ELSE u0
        u2 == IF given("description")
              THEN Put(u1, "description", arguments["description"]) ELSE u1
        u3 == IF given("priority")
              THEN Put(u2, "priority", [name |-> arguments["priority"]]) ELSE u2
        u4 == IF given("assignee")
              THEN Put(u3, "assignee", [name |-> arguments["assignee"]]) ELSE u3
        u5 == IF given("labels") THEN Put(u4, "labels", arguments["labels"]) ELSE u4
    IN  u5

\* update_fields as submitted by the update branch
UpdateFields(arguments) ==
    LET u0 == EmptyDict
        u1 == IF "summary" \in DOMAIN arguments
              THEN Put(u0, "summary", arguments["summary"]) ELSE u0
        u2 == IF "description" \in DOMAIN arguments
              THEN Put(u1, "description", arguments["description"]) ELSE u1
        u3 == IF "priority" \in DOMAIN arguments
              THEN Put(u2, "priority", [name |-> arguments["priority"]]) ELSE u2
        u4 == IF "assignee" \in DOMAIN arguments
              THEN Put(u3, "assignee", [name |-> arguments["assignee"]]) ELSE u3
        u5 == IF "labels" \in DOMAIN arguments
              THEN Put(u4, "labels", arguments["labels"]) ELSE u4
    IN  u5

jira_update_issue(arguments, b1, b2) ==
    IF "issue_key" \notin DOMAIN arguments THEN Raised(KeyError("issue_key"), <<>>)
    ELSE
    LET issue_key == arguments["issue_key"]
        c1 == Call("issue", [id |-> issue_key, expand |-> None], b1)
    IN  IF b1.t # "ok" THEN Raised(b1, <<c1>>)
        ELSE
        LET update_fields == UpdateFields(arguments)
            c2 == Call("issue.update", [issue |-> b1.value.key, fields |-> update_fields], b2)
        IN  IF b2.t # "ok" THEN Raised(b2, <<c1, c2>>)
            ELSE Returned(<<CHECK, " Issue ">> \o issue_key.s \o <<" updated successfully!">>,
                          <<c1, c2>>)

jira_add_comment(arguments, b) ==
    IF "issue_key" \notin DOMAIN arguments THEN Raised(KeyError("issue_key"), <<>>)
    ELSE IF "comment" \notin DOMAIN arguments THEN Raised(KeyError("comment"), <<>>)
    ELSE
    LET issue_key == arguments["issue_key"]
        comment == arguments["comment"]
        cs == <<Call("add_comment", [issue |-> issue_key, body |-> comment], b)>>
    IN  IF b.t # "ok" THEN Raised(b, cs)
        ELSE Returned(<<CHECK, " Comment added to ">> \o issue_key.s, cs)

\* the same loop without its break: a later match overwrites an earlier one
RECURSIVE FindTransition_NoBreak(_, _, _)
FindTransition_NoBreak(transitions, transition, k) ==
    IF k > Len(transitions)
    THEN [transition_id |-> None, transition_name |-> None]
    ELSE LET t == transitions[k]
             later == FindTransition_NoBreak(transitions, transition, k + 1)
         IN  IF Truthy(later.transition_id) THEN later
             ELSE IF Lower(t["name"]) = Lower(transition.s) \/ t["id"] = transition.s
             THEN [transition_id |-> Str(t["id"]), transition_name |-> Str(t["name"])]
             ELSE later

\* the loop "for t in transitions: if ...: ...; break" from its k-th item on;
\* transition_name stays unbound when nothing matches
RECURSIVE FindTransition(_, _, _)
FindTransition(transitions, transition, k) ==
    IF k > Len(transitions)
    THEN [transition_id |-> None, transition_name |-> None]
    ELSE LET t == transitions[k]
         IN  IF Lower(t["name"]) = Lower(transition.s) \/ t["id"] = transition.s
             THEN [transition_id |-> Str(t["id"]), transition_name |-> Str(t["name"])]
             ELSE FindTransition(transitions, transition, k + 1)

\* the transition branch applying the transition before it looks at whether
\* one was found
jira_transition_issue_ApplyFirst(arguments, b1, b2) ==
    IF "issue_key" \notin DOMAIN arguments THEN Raised(KeyError("issue_key"), <<>>)
    ELSE IF "transition" \notin DOMAIN arguments THEN Raised(KeyError("transition"), <<>>)
    ELSE
    LET issue_key == arguments["issue_key"]
        transition == arguments["transition"]
        comment == Get(arguments, "comment", None)
        c1 == Call("transitions", [issue |-> issue_key], b1)
    IN  IF b1.t # "ok" THEN Raised(b1, <<c1>>)
        ELSE
        LET transitions == b1.value
            found == FindTransition(transitions, transition, 1)
            c2 == Call("transition_issue",
                       [issue |-> issue_key, transition |-> found.transition_id,
                        comment |-> comment], b2)
        IN  IF b2.t # "ok" THEN Raised(b2, <<c1, c2>>)
            ELSE IF ~Truthy(found.transition_id)
            THEN LET available == Join(<<",", " ">>, [k \in DOMAIN transitions |-> transitions[k]["name"]])
                 IN  Returned(<<CROSS, " Transition '">> \o transition.s
                                \o <<"' not found.\n\n", "Available transitions: ">>
                                \o available, <<c1, c2>>)
            ELSE Returned(<<CHECK, " Issue ">> \o issue_key.s \o <<" transitioned to '">>
                            \o found.transition_name.s \o <<"'">>, <<c1, c2>>)

jira_transition_issue(arguments, b1, b2) ==
    IF "issue_key" \notin DOMAIN arguments THEN Raised(KeyError("issue_key"), <<>>)
    ELSE IF "transition" \notin DOMAIN arguments THEN Raised(KeyError("transition"), <<>>)
    ELSE
    LET issue_key == arguments["issue_key"]
        transition == arguments["transition"]
        comment == Get(arguments, "comment", None)
        c1 == Call("transitions", [issue |-> issue_key], b1)
    IN  IF b1.t # "ok" THEN Raised(b1, <<c1>>)
        ELSE
        LET transitions == b1.value
            found == FindTransition(transitions, transition, 1)
        IN  IF ~Truthy(found.transition_id)
            THEN LET available == Join(<<",", " ">>, [k \in DOMAIN transitions |-> transitions[k]["name"]])
                 IN  Returned(<<CROSS, " Transition '">> \o transition.s
                                \o <<"' not found.\n\n", "Available transitions: ">>
                                \o available, <<c1>>)
            ELSE
            LET c2 == Call("transition_issue",
                           [issue |-> issue_key, transition |-> found.transition_id,
                            comment |-> comment], b2)
            IN  IF b2.t # "ok" THEN Raised(b2, <<c1, c2>>)
                ELSE Returned(<<CHECK, " Issue ">> \o issue_key.s \o <<" transitioned to '">>
                                \o found.transition_name.s \o <<"'">>, <<c1, c2>>)

jira_get_transitions(arguments, b) ==
    IF "issue_key" \notin DOMAIN arguments THEN Raised(KeyError("issue_key"), <<>>)
    ELSE
    LET issue_key == arguments["issue_key"]
        cs == <<Call("transitions", [issue |-> issue_key], b)>>
    IN  IF b.t # "ok" THEN Raised(b, cs)
        ELSE
        LET transitions == b.value
            res == [issue |-> issue_key,
                    available_transitions |->
                        [k \in DOMAIN transitions |->
                            [id |-> transitions[k]["id"],
                             name |-> transitions[k]["name"],
                             to_status |-> transitions[k]["to"]["name"]]]]
        IN  Returned(JsonDumps(res), cs)

\* the projects the list-projects loop keeps, in order
RECURSIVE KeptProjects(_, _)
KeptProjects(projects, include_archived) ==
    IF projects = <<>> THEN <<>>
    ELSE LET project == Head(projects)
             rest == KeptProjects(Tail(projects), include_archived)
         IN  IF ~Truthy(include_archived) /\ "archived" \in DOMAIN project /\ project.archived
             THEN rest
             ELSE <<[key |-> project.key,
                     name |-> project.name,
                     lead |-> IF "lead" \in DOMAIN project
                              THEN Str(<<project.lead.displayName>>) ELSE None,
                     url |-> client_info \o <<"/browse/", project.key>>]>> \o rest

jira_list_projects(arguments, b) ==
    LET include_archived == Get(arguments, "include_archived", Bool(FALSE))
        cs == <<Call("projects", EmptyDict, b)>>
    IN  IF b.t # "ok" THEN Raised(b, cs)
        ELSE
        LET res == KeptProjects(b.value, include_archived)
        IN  Returned(<<"Found ">> \o IntToStr(Len(res)) \o <<" project(s):\n\n">>
                        \o JsonDumps(res), cs)

unknown_tool(name) == Returned(<<CROSS, " Unknown tool: ", name>>, <<>>)

\* the body of the try block: the client is obtained first, then the
\* if/elif chain compares name with each tool name in turn
TryBody(name, arguments, cb, b1, b2) ==
    LET g == get_jira_client(cb)
    IN  IF g.exc # NoExc THEN Raised(g.exc, g.calls)
        ELSE
        LET r == IF name = "jira_search_issues" THEN jira_search_issues(arguments, b1)
                 ELSE IF name = "jira_get_issue" THEN jira_get_issue(arguments, b1, b2)
                 ELSE IF name = "jira_create_issue" THEN jira_create_issue(arguments, b1)
                 ELSE IF name = "jira_update_issue" THEN jira_update_issue(arguments, b1, b2)
                 ELSE IF name = "jira_add_comment" THEN jira_add_comment(arguments, b1)
                 ELSE IF name = "jira_transition_issue" THEN jira_transition_issue(arguments, b1, b2)
                 ELSE IF name = "jira_get_transitions" THEN jira_get_transitions(arguments, b1)
                 ELSE IF name = "jira_list_projects" THEN jira_list_projects(arguments, b1)
                 ELSE unknown_tool(name)
        IN  [r EXCEPT !.calls = g.calls \o r.calls]

TextContent(text) == [type |-> "text", text |-> text]

\* the boundary with only the JIRAError clause: anything else gets past it
Except_JiraOnly(r) ==
    IF r.exc = NoExc
    THEN [returned |-> <<TextContent(r.text)>>, escaped |-> NoExc]
    ELSE IF r.exc.t = "JIRAError"
    THEN [returned |-> <<TextContent(<<CROSS, " Jira Error: ">> \o IntToStr(r.exc.status_code)
                                        \o <<" - ", r.exc.text>>)>>,
          escaped |-> NoExc]
    ELSE [returned |-> <<>>, escaped |-> r.exc]

\* the boundary with the catch-all clause first: JIRAError is an Exception,
\* so the tracker's errors are reported by the catch-all
Except_CatchAllFirst(r) ==
    IF r.exc = NoExc
    THEN [returned |-> <<TextContent(r.text)>>, escaped |-> NoExc]
    ELSE IF IsException(r.exc)
    THEN [returned |-> <<TextContent(<<CROSS, " Error: ">> \o
                            (IF r.exc.t = "JIRAError"
                             THEN <<"JiraError HTTP ">> \o IntToStr(r.exc.status_code)
                             ELSE StrExc(r.exc)))>>,
          escaped |-> NoExc]
    ELSE [returned |-> <<>>, escaped |-> r.exc]

\* the two except clauses, in order, applied to what the try block did:
\* the list returned to the caller and the exception that gets past them
Except(r) ==
    IF r.exc = NoExc
    THEN [returned |-> <<TextContent(r.text)>>, escaped |-> NoExc]
    ELSE IF r.exc.t = "JIRAError"
    THEN [returned |-> <<TextContent(<<CROSS, " Jira Error: ">> \o IntToStr(r.exc.status_code)
                                        \o <<" - ", r.exc.text>>)>>,
          escaped |-> NoExc]
    ELSE IF IsException(r.exc)
    THEN [returned |-> <<TextContent(<<CROSS, " Error: ">> \o StrExc(r.exc))>>,
          escaped |-> NoExc]
    ELSE [returned |-> <<>>, escaped |-> r.exc]

---------------------------------------------------------------------------
(* What each client operation may do when a branch reaches it.             *)

\* the first client operation of the branch for name
FirstBehaviours(name) ==
    CASE name = "jira_search_issues" -> {Ok(v) : v \in SeqsUpTo(Issues, MaxList)} \cup Failures
      [] name = "jira_get_issue" -> {Ok(v) : v \in Issues} \cup Failures
      [] name = "jira_create_issue" -> {Ok([key |-> k]) : k \in {"PROJ-7", "PROJ-8"}} \cup Failures
      [] name = "jira_update_issue" -> {Ok(FullIssue)} \cup Failures
      [] name = "jira_add_comment" -> {Ok(None)} \cup Failures
      [] name = "jira_transition_issue" ->
            {Ok(v) : v \in SeqsUpTo(Transitions, MaxTransitions)} \cup Failures
      [] name = "jira_get_transitions" ->
            {Ok(v) : v \in SeqsUpTo(Transitions, MaxTransitions)} \cup Failures
      [] name = "jira_list_projects" -> {Ok(v) : v \in SeqsUpTo(Projects, MaxList)} \cup Failures
      [] OTHER -> {Unreached}

\* the second one, for the branches that have one
SecondBehaviours(name) ==
    CASE name = "jira_get_issue" -> {Ok(v) : v \in SeqsUpTo(Comments, MaxList)} \cup Failures
      [] name = "jira_update_issue" -> {Ok(None)} \cup Failures
      [] name = "jira_transition_issue" -> {Ok(None)} \cup Failures
      [] OTHER -> {Unreached}

---------------------------------------------------------------------------
(* The state machine.                                                      *)

NoRequest == [name |-> "", arguments |-> EmptyDict]

Init ==
    /\ environ \in [EnvNames -> EnvValues]
    /\ _jira_client = None
    /\ phase = "idle"
    /\ last = NoRequest
    /\ result = <<>>
    /\ escaped = NoExc
    /\ calls = <<>>

\* one invocation of call_tool(name, arguments); it has no await, so it runs
\* to its return without interleaving
call_tool(name, arguments) ==
    \E cb \in ConstructorBehaviours :
       \E b1 \in (IF get_jira_client(cb).exc = NoExc THEN FirstBehaviours(name) ELSE {Unreached}) :
       \E b2 \in (IF b1.t = "ok" THEN SecondBehaviours(name) ELSE {Unreached}) :
          LET r == TryBody(name, arguments, cb, b1, b2)
              out == Except(r)
          IN  /\ _jira_client' = get_jira_client(cb).global
              /\ phase' = IF out.escaped = NoExc THEN "returned" ELSE "raised"
              /\ last' = [name |-> name, arguments |-> arguments]
              /\ result' = out.returned
              /\ escaped' = out.escaped
              /\ calls' = r.calls
              /\ UNCHANGED environ

\* the requests the server may receive while it is idle
SearchIssues ==
    /\ phase = "idle"
    /\ \E a \in SearchArguments : call_tool("jira_search_issues", a)

GetIssue ==
    /\ phase = "idle"
    /\ \E a \in GetIssueArguments : call_tool("jira_get_issue", a)

CreateIssue ==
    /\ phase = "idle"
    /\ \E a \in CreateArguments : call_tool("jira_create_issue", a)

UpdateIssue ==
    /\ phase = "idle"
    /\ \E a \in UpdateArguments : call_tool("jira_update_issue", a)

AddComment ==
    /\ phase = "idle"
    /\ \E a \in AddCommentArguments : call_tool("jira_add_comment", a)

TransitionIssue ==
    /\ phase = "idle"
    /\ \E a \in TransitionArguments : call_tool("jira_transition_issue", a)

GetTransitions ==
    /\ phase = "idle"
    /\ \E a \in GetTransitionsArguments : call_tool("jira_get_transitions", a)

ListProjects ==
    /\ phase = "idle"
    /\ \E a \in ListProjectsArguments : call_tool("jira_list_projects", a)

UnknownTool ==
    /\ phase = "idle"
    /\ \E n \in UnknownNames, a \in UnknownArguments : call_tool(n, a)

\* one invocation of list_tools()
ListTools ==
    /\ phase = "idle"
    /\ phase' = "listed"
    /\ last' = [name |-> "list_tools", arguments |-> EmptyDict]
    /\ result' = list_tools
    /\ UNCHANGED <<environ, _jira_client, escaped, calls>>

\* the server sends the response and waits for the next request; nothing of
\* the invocation is kept
Discard ==
    /\ phase # "idle"
    /\ phase' = "idle"
    /\ last' = NoRequest
    /\ result' = <<>>
    /\ escaped' = NoExc
    /\ calls' = <<>>
    /\ UNCHANGED <<environ, _jira_client>>

Next ==
    \/ SearchIssues
    \/ GetIssue
    \/ CreateIssue
    \/ UpdateIssue
    \/ AddComment
    \/ TransitionIssue
    \/ GetTransitions
    \/ ListProjects
    \/ UnknownTool
    \/ ListTools
    \/ Discard

Spec == Init /\ [][Next]_vars

---------------------------------------------------------------------------
(* Vocabulary of the properties.                                           *)

ToolNames == {list_tools[k].name : k \in DOMAIN list_tools}

Required(tool) == Get(tool.inputSchema, "required", <<>>)

\* the text block an invocation returned
Text == result[1].text

Invoked == phase = "returned"

IsFailureText(text) == Len(text) >= 1 /\ text[1] = CROSS

UnknownToolText(name) == <<CROSS, " Unknown tool: ", name>>

InternalText(description) == <<CROSS, " Error: ">> \o description

\* a three-digit status as the tracker sent it
StatusDigits(n) == <<Digit((n \div 100) % 10), Digit((n \div 10) % 10), Digit(n % 10)>>

UpstreamText(status, detail) == <<CROSS, " Jira Error: ">> \o StatusDigits(status) \o <<" - ", detail>>

MissingArgumentText(p) == InternalText(<<"'", p, "'">>)

MutatingOperations == {"create_issue", "issue.update", "add_comment", "transition_issue"}

TrackerOperations ==
    MutatingOperations \cup {"search_issues", "issue", "comments", "transitions", "projects"}

Issued(op) == {k \in DOMAIN calls : calls[k].op = op}

\* two characters that are the same letter in either case
SameLetter(x, y) ==
    \/ x = y
    \/ {x, y} \in {{"D", "d"}, {"O", "o"}, {"N", "n"}, {"E", "e"}}

EqualIgnoringCase(a, b) ==
    /\ Len(a) = Len(b)
    /\ \A k \in DOMAIN a : SameLetter(a[k], b[k])

\* candidate c answers to the token
Answers(c, token) == EqualIgnoringCase(c.name, token) \/ c.id = token

\* the names of the first n candidates, comma-separated, in list order
RECURSIVE NamesListed(_, _)
NamesListed(cands, n) ==
    IF n = 0 THEN <<>>
    ELSE IF n = 1 THEN cands[1].name
    ELSE NamesListed(cands, n - 1) \o <<",", " ">> \o cands[n].name

NotFoundText(token, cands) ==
    <<CROSS, " Transition '">> \o token \o <<"' not found.\n\n", "Available transitions: ">>
        \o NamesListed(cands, Len(cands))

\* the transition tool was called with both required arguments and the
\* client returned a candidate list
Resolving ==
    /\ Invoked
    /\ last.name = "jira_transition_issue"
    /\ {"issue_key", "transition"} \subseteq DOMAIN last.arguments
    /\ Issued("transitions") # {}
    /\ \A k \in Issued("transitions") : calls[k].b.t = "ok"

Candidates == calls[CHOOSE k \in Issued("transitions") : TRUE].b.value

Token == last.arguments["transition"].s

---------------------------------------------------------------------------
(* C1: for an unregistered tool name, call_tool returns the UnknownTool    *)
(* failure carrying the name, and no client operation, not even creating   *)
(* the client, is attempted, whatever the state of the client and of the   *)
(* configuration.                                                          *)
C1_UnknownToolTouchesNoClient ==
    (Invoked /\ last.name \notin ToolNames) =>
        /\ result = <<TextContent(UnknownToolText(last.name))>>
        /\ calls = <<>>

(* C2: a call to a registered tool that lacks a parameter its schema lists *)
(* as required returns a failure naming that parameter, never a success.   *)
(* Stated for the invocations that obtained the client and lack exactly    *)
(* one required parameter, so that reading the arguments is reached and    *)
(* only one name can be reported.                                          *)
C2_MissingRequiredIsNamedFailure ==
    \A k \in DOMAIN list_tools :
        \A p \in Range(Required(list_tools[k])) :
            ( /\ Invoked
              /\ last.name = list_tools[k].name
              /\ ~IsNone(_jira_client)
              /\ p \notin DOMAIN last.arguments
              /\ Range(Required(list_tools[k])) \ {p} \subseteq DOMAIN last.arguments )
            => (IsFailureText(Text) /\ p \in Range(Text))

(* C3: the transition tool applies the earliest candidate, in the order    *)
(* the client gave, whose name equals the token ignoring case or whose id  *)
(* equals it exactly, and reports that candidate's name; when no candidate *)
(* answers, the outcome is the not-found failure listing every candidate   *)
(* name in list order, and no transition is applied.                       *)
C3_EarliestMatchResolves ==
    Resolving =>
        IF \E m \in DOMAIN Candidates : Answers(Candidates[m], Token)
        THEN LET m == CHOOSE m \in DOMAIN Candidates :
                        /\ Answers(Candidates[m], Token)
                        /\ \A j \in 1..(m - 1) : ~Answers(Candidates[j], Token)
             IN  /\ Cardinality(Issued("transition_issue")) = 1
                 /\ \A k \in Issued("transition_issue") :
                        /\ calls[k].args.transition = Str(Candidates[m].id)
                        /\ calls[k].b.t = "ok" =>
                              Text = <<CHECK, " Issue ">> \o last.arguments["issue_key"].s
                                        \o <<" transitioned to '">> \o Candidates[m].name \o <<"'">>
        ELSE /\ Text = NotFoundText(Token, Candidates)
             /\ Issued("transition_issue") = {}

\* two candidates with different ids answer a token spelled in another case
\* than the first one's name, and the transition went through
C3_Witness ==
    /\ Resolving
    /\ Len(Candidates) >= 2
    /\ Answers(Candidates[1], Token)
    /\ Answers(Candidates[2], Token)
    /\ Candidates[1].id # Candidates[2].id
    /\ Candidates[1].name # Token
    /\ ~IsFailureText(Text)

(* C4: an invocation that ends in a validation failure (a required         *)
(* argument missing) or a resolution failure (token unmatched) has issued  *)
(* no mutating client operation; transition_issue is only ever called      *)
(* right after a successful transitions() whose list holds a candidate     *)
(* that answers the token, with that candidate's id.                       *)
C4_NoMutationBeforeFailure ==
    Invoked =>
        /\ ( \/ \E p \in {"jql", "issue_key", "project", "summary", "issue_type", "comment", "transition"} :
                    Text = MissingArgumentText(p)
             \/ (Len(Text) >= 2 /\ Text[1] = CROSS /\ Text[2] = " Transition '") )
           => \A k \in DOMAIN calls : calls[k].op \notin MutatingOperations
        /\ \A k \in Issued("transition_issue") :
              /\ k > 1
              /\ calls[k - 1].op = "transitions"
              /\ calls[k - 1].b.t = "ok"
              /\ \E m \in DOMAIN calls[k - 1].b.value :
                    /\ Answers(calls[k - 1].b.value[m], Token)
                    /\ calls[k].args.transition = Str(calls[k - 1].b.value[m].id)

\* a token that is only part of a name was looked up among two candidates
C4_Witness ==
    /\ Resolving
    /\ Len(Candidates) = 2
    /\ Token = <<"o", "n">>
    /\ Text = NotFoundText(Token, Candidates)
    /\ Len(calls) >= 1

(* C5: the update tool submits a field map whose keys are exactly those of *)
(* summary, description, priority, assignee, labels present in the raw     *)
(* arguments; a present value is submitted as given, empty or not, and an  *)
(* absent key yields no entry.                                             *)
UpdatableFields == {"summary", "description", "priority", "assignee", "labels"}

C5_UpdateSubmitsPresentKeys ==
    (Invoked /\ last.name = "jira_update_issue" /\ "issue_key" \in DOMAIN last.arguments) =>
        /\ (Issued("issue") # {} /\ \A k \in Issued("issue") : calls[k].b.t = "ok")
              => Cardinality(Issued("issue.update")) = 1
        /\ \A k \in Issued("issue.update") :
              LET submitted == calls[k].args.fields
                  given == last.arguments
              IN  /\ DOMAIN submitted = DOMAIN given \cap UpdatableFields
                  /\ \A f \in DOMAIN submitted \cap {"summary", "description", "labels"} :
                        submitted[f] = given[f]
                  /\ \A f \in DOMAIN submitted \cap {"priority", "assignee"} :
                        submitted[f] = [name |-> given[f]]

\* an update that clears the labels, leaves the summary alone and carries an
\* undeclared key
C5_Witness ==
    /\ Invoked
    /\ last.name = "jira_update_issue"
    /\ "labels" \in DOMAIN last.arguments
    /\ last.arguments["labels"] = List(<<>>)
    /\ "summary" \notin DOMAIN last.arguments
    /\ "components" \in DOMAIN last.arguments
    /\ Issued("issue.update") # {}
    /\ ~IsFailureText(Text)

(* C6: the create tool called with project, summary and issue_type and no  *)
(* optional field submits a field map with no priority, assignee or labels *)
(* key, and its success outcome carries the created key and a browse       *)
(* reference built from that key.                                          *)
C6_CreateWithoutOptionals ==
    ( /\ Invoked
      /\ last.name = "jira_create_issue"
      /\ DOMAIN last.arguments = {"project", "summary", "issue_type"} ) =>
        /\ ~IsNone(_jira_client) => Cardinality(Issued("create_issue")) = 1
        /\ \A k \in Issued("create_issue") :
              /\ DOMAIN calls[k].args.fields \cap {"priority", "assignee", "labels"} = {}
              /\ calls[k].args.fields["project"] = [key |-> last.arguments["project"]]
              /\ calls[k].args.fields["summary"] = last.arguments["summary"]
              /\ calls[k].args.fields["issuetype"] = [name |-> last.arguments["issue_type"]]
              /\ calls[k].b.t = "ok" =>
                    LET key == calls[k].b.value.key
                    IN  /\ ~IsFailureText(Text)
                        /\ \E n \in DOMAIN Text : Text[n] = "Key: " /\ Text[n + 1] = key
                        /\ \E n \in DOMAIN Text :
                              /\ Text[n] = "URL: "
                              /\ SubSeq(Text, n + 1, n + Len(client_info) + 2)
                                    = client_info \o <<"/browse/", key>>

C6_Witness ==
    /\ Invoked
    /\ last.name = "jira_create_issue"
    /\ DOMAIN last.arguments = {"project", "summary", "issue_type"}
    /\ \E k \in Issued("create_issue") : calls[k].b.t = "ok" /\ calls[k].b.value.key = "PROJ-8"

(* C7: every invocation of call_tool, whatever the name, the arguments and *)
(* the behaviour of the client at each call point, ends by returning       *)
(* exactly one text block; no exception leaves the invocation.             *)
C7_ExactlyOneOutcome ==
    /\ phase # "raised"
    /\ escaped = NoExc
    /\ Invoked => (Len(result) = 1 /\ result[1].type = "text" /\ Len(result[1].text) >= 1)

\* a failure that is not a tracker error, raised by the second client
\* operation of an invocation
C7_Witness ==
    /\ Invoked
    /\ Len(calls) >= 2
    /\ calls[Len(calls)].b.t = "ConnectionError"
    /\ calls[Len(calls)].op \in TrackerOperations

(* C8: a tracker error raised by any client operation is reported as the   *)
(* Upstream failure "<status> - <detail>" with status and text unmodified; *)
(* any other failure (a failing client operation, missing configuration, a *)
(* missing argument) is reported as the Internal failure carrying its      *)
(* description; the Upstream form appears only for tracker errors, and a   *)
(* tracker error never yields a success.                                   *)
C8_UpstreamAndInternalKeptApart ==
    Invoked =>
        /\ \A k \in DOMAIN calls :
              /\ calls[k].b.t = "JIRAError"
                    => Text = UpstreamText(calls[k].b.status_code, calls[k].b.text)
              /\ calls[k].b.t = "ConnectionError"
                    => Text = InternalText(<<calls[k].b.msg>>)
        /\ (IsNone(_jira_client) /\ ~ConfigComplete)
              => Text = InternalText(<<MissingConfigMessage>>)
        /\ \A k \in DOMAIN list_tools :
              ( /\ last.name = list_tools[k].name
                /\ ~IsNone(_jira_client)
                /\ Required(list_tools[k]) # <<>>
                /\ Required(list_tools[k])[1] \notin DOMAIN last.arguments )
              => Text = MissingArgumentText(Required(list_tools[k])[1])
        /\ (Len(Text) >= 2 /\ Text[2] = " Jira Error: ")
              => \E k \in DOMAIN calls : calls[k].b.t = "JIRAError"

\* the tracker rejected the second operation of an invocation with 404
C8_Witness ==
    /\ Invoked
    /\ Len(calls) >= 2
    /\ calls[Len(calls)].op \in MutatingOperations
    /\ calls[Len(calls)].b.t = "JIRAError"
    /\ calls[Len(calls)].b.status_code = 404

(* C9: in the advertised catalog no required parameter has a declared      *)
(* default, no tool lists a parameter name twice, and list_tools returns   *)
(* the same eight tools in the same order on every call.                   *)
C9_CatalogWellFormed ==
    phase = "listed" =>
        /\ [k \in DOMAIN result |-> result[k].name] =
              <<"jira_search_issues", "jira_get_issue", "jira_create_issue", "jira_update_issue",
                "jira_add_comment", "jira_transition_issue", "jira_get_transitions",
                "jira_list_projects">>
        /\ \A k \in DOMAIN result :
              LET properties == result[k].inputSchema.properties
              IN  /\ \A m, n \in DOMAIN properties :
                        properties[m][1] = properties[n][1] => m = n
                  /\ \A m \in DOMAIN properties :
                        properties[m][1] \in Range(Required(result[k]))
                            => "default" \notin DOMAIN properties[m][2]

(* C10: the shared client handle is created at most once in a process:     *)
(* while it is unset every invocation tries to create it, once set it is   *)
(* never replaced or reset and the constructor is not called again, and    *)
(* with incomplete configuration the handle stays unset and the invocation *)
(* returns the Internal failure without any tracker operation.             *)
Invocation == phase = "idle" /\ phase' \in {"returned", "raised"}

C10_ClientCreatedAtMostOnce ==
    [][ /\ ~IsNone(_jira_client) => _jira_client' = _jira_client
        /\ (Invocation /\ ~IsNone(_jira_client))
              => \A k \in DOMAIN calls' : calls'[k].op # "JIRA"
        /\ (Invocation /\ IsNone(_jira_client) /\ ConfigComplete)
              => /\ Len(calls') >= 1
                 /\ calls'[1].op = "JIRA"
                 /\ \A k \in 2..Len(calls') : calls'[k].op # "JIRA"
                 /\ calls'[1].b.t = "ok" <=> ~IsNone(_jira_client')
        /\ (Invocation /\ IsNone(_jira_client) /\ ~ConfigComplete)
              => /\ IsNone(_jira_client')
                 /\ result' = <<TextContent(InternalText(<<MissingConfigMessage>>))>>
                 /\ calls' = <<>> ]_vars

\* an invocation that used the handle an earlier invocation created
C10_Witness ==
    /\ Invoked
    /\ ~IsNone(_jira_client)
    /\ Len(calls) >= 1
    /\ \A k \in DOMAIN calls : calls[k].op # "JIRA"

=============================================================================
